---------------------------- MODULE Spec2Model ----------------------------
(***************************************************************************)
(* Quick-open search overlay (FileBrowser) of the sonet code editor:       *)
(* the fuzzy ranker, the recursive directory indexer, the listing cache    *)
(* and the init effect that drives them.                                   *)
(*                                                                         *)
(* Strings are sequences of UTF-16 code units, each written as a short      *)
(* string: "a", "A", ...; "hi" "lo" is the surrogate pair of one character *)
(* outside the basic plane.  toLowerCase, startsWith, includes, endsWith,  *)
(* indexing and for-of iteration are computed the way the code computes    *)
(* them.                                                                   *)
(***************************************************************************)
EXTENDS Integers, Sequences, FiniteSets, TLC

(***************************************************************************)
(* Bounds of the ranker specifications                                     *)
(***************************************************************************)
MaxNameLen == 2      \* longest candidate name drawn in SpecRank
MaxQueryLen == 2     \* longest query drawn in SpecRank
MaxItems == 2        \* longest candidate list drawn in SpecRank
MaxCorpus == 52      \* longest candidate list drawn in SpecTop

(***************************************************************************)
(* String primitives of String.prototype                                  *)
(***************************************************************************)
UpperChars == {"A", "B", "R"}

lowerChar(c) ==
  CASE c = "A" -> "a"
    [] c = "B" -> "b"
    [] c = "R" -> "r"
    [] c = "C" -> "c"
    [] c = "F" -> "f"
    [] c = "N" -> "n"
    [] c = "O" -> "o"
    [] OTHER -> c

toLowerCase(s) == [k \in 1..Len(s) |-> lowerChar(s[k])]

\* s.startsWith(t): compare position by position from the left
RECURSIVE prefixFrom(_, _, _)
prefixFrom(s, t, k) ==
  IF k > Len(t) THEN TRUE
  ELSE IF k > Len(s) THEN FALSE
  ELSE IF s[k] # t[k] THEN FALSE
  ELSE prefixFrom(s, t, k + 1)

startsWith(s, t) == prefixFrom(s, t, 1)

\* s.includes(t): try every start position from the left
RECURSIVE includesFrom(_, _, _)
includesFrom(s, t, k) ==
  IF k + Len(t) - 1 > Len(s) THEN FALSE
  ELSE IF prefixFrom(SubSeq(s, k, Len(s)), t, 1) THEN TRUE
  ELSE includesFrom(s, t, k + 1)

includes(s, t) == includesFrom(s, t, 1)

endsWith(s, t) ==
  /\ Len(t) <= Len(s)
  /\ SubSeq(s, Len(s) - Len(t) + 1, Len(s)) = t

(***************************************************************************)
(* FileItem: name, type, path (the empty string stands for an absent       *)
(* path), size.                                                            *)
(***************************************************************************)
FileItem(n, t, p, z) == [name |-> n, type |-> t, path |-> p, size |-> z]

(***************************************************************************)
(* fuzzySearch                                                             *)
(***************************************************************************)
ExactBonus == 900
PrefixBonus == 500
NameBonus == 250
PathBonus == 120
CharBonus == 15
ResultLimit == 50

\* the element for-of yields at code unit k of str: a whole surrogate
\* pair, or a single code unit
codePointAt(str, k) ==
  IF str[k] = "hi" /\ k < Len(str) /\ str[k + 1] = "lo"
  THEN <<str[k], str[k + 1]>>
  ELSE <<str[k]>>

\* the for-of loop over the name: st = <<i, s>>, c starts at code unit k;
\* term[i] is one code unit, undefined past the end of term
RECURSIVE charLoop(_, _, _, _)
charLoop(name, term, k, st) ==
  IF k > Len(name) THEN st[2]
  ELSE
    LET c == codePointAt(name, k)
        hit == st[1] + 1 <= Len(term) /\ c = <<term[st[1] + 1]>>
        i2 == IF hit THEN st[1] + 1 ELSE st[1]
        s2 == IF hit THEN st[2] + CharBonus ELSE st[2]
    IN IF i2 = Len(term) THEN s2
       ELSE charLoop(name, term, k + Len(c), <<i2, s2>>)

\* mutant: the name is compared as listed, without toLowerCase
scoreOfRawName(q, f) ==
  LET term == toLowerCase(q)
      name == f.name
      path == toLowerCase(f.path)
      s1 == IF name = term THEN ExactBonus ELSE 0
      s2 == IF startsWith(name, term) THEN s1 + PrefixBonus ELSE s1
      s3 == IF includes(name, term) THEN s2 + NameBonus ELSE s2
      s4 == IF includes(path, term) THEN s3 + PathBonus ELSE s3
  IN charLoop(name, term, 1, <<0, s4>>)

\* mutant: the exact-match bonus is missing
scoreOfNoExact(q, f) ==
  LET term == toLowerCase(q)
      name == toLowerCase(f.name)
      path == toLowerCase(f.path)
      s2 == IF startsWith(name, term) THEN PrefixBonus ELSE 0
      s3 == IF includes(name, term) THEN s2 + NameBonus ELSE s2
      s4 == IF includes(path, term) THEN s3 + PathBonus ELSE s3
  IN charLoop(name, term, 1, <<0, s4>>)

scoreOf(q, f) ==
  LET term == toLowerCase(q)
      name == toLowerCase(f.name)
      path == toLowerCase(f.path)
      s1 == IF name = term THEN ExactBonus ELSE 0
      s2 == IF startsWith(name, term) THEN s1 + PrefixBonus ELSE s1
      s3 == IF includes(name, term) THEN s2 + NameBonus ELSE s2
      s4 == IF includes(path, term) THEN s3 + PathBonus ELSE s3
  IN charLoop(name, term, 1, <<0, s4>>)

\* mutant: candidates scoring 0 are kept
scoredKeepZero(q, items) ==
  SelectSeq([k \in 1..Len(items) |-> [f |-> items[k], s |-> scoreOf(q, items[k])]],
            LAMBDA r : r.s >= 0)

\* .map(f => s>0 ? {f,s} : null).filter(Boolean)
scored(q, items) ==
  SelectSeq([k \in 1..Len(items) |-> [f |-> items[k], s |-> scoreOf(q, items[k])]],
            LAMBDA r : r.s > 0)

\* Array.prototype.sort((a,b) => b.s - a.s): the comparator puts a before b
\* when a.s > b.s, and the sort is stable, so entries that compare equal keep
\* their order.  The entry at index k of rs lands behind every entry that is
\* put before it.
\* mutant: entries that compare equal come out in reverse order
sortDescUnstable(rs) ==
  LET before(j, k) == \/ rs[k].s - rs[j].s < 0
                      \/ rs[k].s - rs[j].s = 0 /\ j > k
      at(k) == 1 + Cardinality({j \in 1..Len(rs) : before(j, k)})
  IN [p \in 1..Len(rs) |-> rs[CHOOSE k \in 1..Len(rs) : at(k) = p]]

sortDesc(rs) ==
  LET before(j, k) == \/ rs[k].s - rs[j].s < 0
                      \/ rs[k].s - rs[j].s = 0 /\ j < k
      at(k) == 1 + Cardinality({j \in 1..Len(rs) : before(j, k)})
  IN [p \in 1..Len(rs) |-> rs[CHOOSE k \in 1..Len(rs) : at(k) = p]]

slice(s, from, to) == SubSeq(s, from + 1, IF to < Len(s) THEN to ELSE Len(s))

\* mutant: the slice keeps one entry too many
fuzzySearchOffByOne(q, items) ==
  LET top == slice(sortDesc(scored(q, items)), 0, ResultLimit + 1)
  IN [k \in 1..Len(top) |-> top[k].f]

fuzzySearch(q, items) ==
  LET top == slice(sortDesc(scored(q, items)), 0, ResultLimit)
  IN [k \in 1..Len(top) |-> top[k].f]

(***************************************************************************)
(* The file system behind the listing capability onListFiles.              *)
(*   /proj        Readme.md, readme-old.md, src/            (paths given)  *)
(*   /proj/src    main.go, build/                                          *)
(*   /proj/src/build   o                                                   *)
(*   /w           a, d/, node_modules/, build/, dist/, .g/, locked/        *)
(*   /w/d/.../d   a chain of ChainLen nested folders d, a file f in each   *)
(*   /w/locked    cannot be listed                                         *)
(* The entries below /w carry no path, so that crawl builds it.            *)
(***************************************************************************)
ChainLen == 8        \* nesting depth of the folder chain below /w
MaxRuns == 2         \* runs of the init effect in one behaviour

SLASH == <<"/">>
sProj == <<"/", "p", "r", "o", "j">>
sW == <<"/", "w">>
nReadme == <<"R", "e", "a", "d", "m", "e", ".", "m", "d">>
nReadmeOld == <<"r", "e", "a", "d", "m", "e", "-", "o", "l", "d", ".", "m", "d">>
nSrc == <<"s", "r", "c">>
nMain == <<"m", "a", "i", "n", ".", "g", "o">>
nD == <<"d">>
nNodeModules == <<"n", "o", "d", "e", "_", "m", "o", "d", "u", "l", "e", "s">>
nBuild == <<"b", "u", "i", "l", "d">>
nDist == <<"d", "i", "s", "t">>
nDotG == <<".", "g">>
nLocked == <<"l", "o", "c", "k", "e", "d">>
qReadme == <<"r", "e", "a", "d", "m", "e">>
qMain == <<"M", "a", "i", "n">>

sSrc == sProj \o SLASH \o nSrc
sSrcBuild == sSrc \o SLASH \o nBuild
sDist == sW \o SLASH \o nDist

RECURSIVE chainDir(_)
chainDir(k) == IF k = 0 THEN sW ELSE chainDir(k - 1) \o SLASH \o nD

ProjEntries ==
  << FileItem(nReadme, "file", sProj \o SLASH \o nReadme, 1),
     FileItem(nReadmeOld, "file", sProj \o SLASH \o nReadmeOld, 2),
     FileItem(nSrc, "folder", sSrc, 0) >>

WEntries ==
  << FileItem(<<"a">>, "file", <<>>, 3),
     FileItem(nD, "folder", <<>>, 0),
     FileItem(nNodeModules, "folder", <<>>, 0),
     FileItem(nBuild, "folder", <<>>, 0),
     FileItem(nDist, "folder", <<>>, 0),
     FileItem(nDotG, "folder", <<>>, 0),
     FileItem(nLocked, "folder", <<>>, 0) >>

ChainEntries(k) ==
  IF k < ChainLen
  THEN << FileItem(<<"f">>, "file", <<>>, 10 + k), FileItem(nD, "folder", <<>>, 0) >>
  ELSE << FileItem(<<"f">>, "file", <<>>, 10 + k) >>

IgnoredDirs == { sW \o SLASH \o n : n \in {nNodeModules, nBuild, nDist, nDotG} }

DirPaths == {sProj, sSrc, sSrcBuild} \cup {chainDir(k) : k \in 0..ChainLen} \cup IgnoredDirs

BaseDisk ==
  [p \in DirPaths |->
     IF p = sProj THEN ProjEntries
     ELSE IF p = sSrc
     THEN << FileItem(nMain, "file", sSrc \o SLASH \o nMain, 4),
             FileItem(nBuild, "folder", sSrcBuild, 0) >>
     ELSE IF p = sSrcBuild
     THEN << FileItem(<<"o">>, "file", sSrcBuild \o SLASH \o <<"o">>, 6) >>
     ELSE IF p = sW THEN WEntries
     ELSE IF p \in IgnoredDirs THEN << FileItem(<<"o">>, "file", <<>>, 5) >>
     ELSE ChainEntries(CHOOSE k \in 1..ChainLen : chainDir(k) = p)]

\* the orders in which the listing of /proj may report its three entries
Disks ==
  { [BaseDisk EXCEPT ![sProj] = [k \in 1..3 |-> ProjEntries[pi[k]]]] :
      pi \in Permutations(1..3) }


(***************************************************************************)
(* State of one FileBrowser instance, of the listing calls in flight and   *)
(* of the ranker harness.                                                  *)
(***************************************************************************)
VARIABLES
  mounted,         \* the parent renders FileBrowser (showFileBrowser)
  currentProject,  \* prop currentProject ("" when no folder is open)
  query, selectedIndex, currentPath, files, allFiles, isLoading, isIndexing,
  indexedRef, lastProjectRef,
  cache,           \* cache.current: directory path -> listing
  passes,          \* indexAllFiles calls suspended in an await of crawl
  loads,           \* navigateTo calls suspended in the await of loadFiles
  runs,            \* number of indexAllFiles invocations so far (pass ids)
  loadSeq,         \* number of listing calls issued by loadFiles so far
  disk,            \* what onListFiles reports for each directory
  issued,          \* history: the listing calls issued by the last step
  lastInvoked,     \* history: root of the last indexAllFiles invocation
  rootChanged,     \* history: currentProject changed since that invocation
  pubBy,           \* history: id of the pass that published allFiles, or 0
  opened,          \* history: the paths handed to onOpenFile by the last step
  rQuery, rItems, rScores, rResult, rPhase,  \* ranker harness
  recentFiles,     \* App state recentFiles (saved to localStorage)
  goRecent,        \* a.recentFiles of the Go backend
  reads,           \* openFileFromPath calls suspended in the await of ReadFile
  openLog,         \* history: the paths read successfully, oldest first
  overlaps,        \* history: calls of openFileFromPath made while one is pending
  tabs,            \* Editor state tabs
  activeTab,       \* Editor state activeTab ("" when no tab is active)
  untitledCounter, \* Editor state untitledCounter
  saves,           \* saveCurrentFile calls suspended in the await of WriteFile
  now,             \* Date.now()
  names,           \* file system: path -> inode number, 0 when there is no file
  inodes,          \* file system: inode number -> data and write permission
  calls,           \* WriteFile calls of the backend that have not returned
  nCalls,          \* number of WriteFile calls so far (call ids)
  ret,             \* history: what the last WriteFile call returned
  alert,           \* history: the kind of message its caller showed
  showLauncher,    \* the Editor renders Ulauncher
  mode, browserPath, browserFiles,  \* Ulauncher state
  uQuery, uSelectedIndex, uIsLoading,  \* Ulauncher state query, selectedIndex, isLoading
  uLoads,          \* loadBrowserFiles calls suspended in the await of onListFiles
  edFiles,         \* Editor state files (the explorer's listing)
  emitted          \* history: the argument of the last onOpenFile of Ulauncher

browserVars ==
  << mounted, currentProject, query, selectedIndex, currentPath, files,
     allFiles, isLoading, isIndexing, indexedRef, lastProjectRef, cache,
     passes, loads, runs, loadSeq, disk, issued, lastInvoked, rootChanged,
     pubBy, opened >>
rankVars == << rQuery, rItems, rScores, rResult, rPhase >>
recentVars == << recentFiles, goRecent, reads, openLog, overlaps >>
tabVars == << tabs, activeTab, untitledCounter, saves, now >>
fsVars == << names, inodes, calls, nCalls, ret, alert >>
launchVars ==
  << showLauncher, mode, browserPath, browserFiles, uQuery, uSelectedIndex,
     uIsLoading, uLoads, edFiles, emitted >>
editorVars == << tabVars, fsVars, launchVars >>
vars == << browserVars, rankVars, recentVars, editorVars >>

EmptyCache == [p \in {} |-> <<>>]

(***************************************************************************)
(* indexAllFiles: the recursive crawl, one step per listing call           *)
(***************************************************************************)
MaxDepth == 6

Frame(path, depth) == [path |-> path, depth |-> depth, rest |-> <<>>, collected |-> <<>>]

\* f.path || (path.endsWith('/') ? path + name : path + '/' + name)
filePathOf(path, f) ==
  IF f.path # <<>> THEN f.path
  ELSE IF endsWith(path, SLASH) THEN path \o f.name
  ELSE path \o SLASH \o f.name

\* mutant: only the dot-folders are skipped
descendsIntoOutputs(f) ==
  /\ f.type = "folder"
  /\ ~startsWith(f.name, <<".">>)

descends(f) ==
  /\ f.type = "folder"
  /\ ~startsWith(f.name, <<".">>)
  /\ f.name # nNodeModules
  /\ f.name # nBuild
  /\ f.name # nDist

alreadyIndexed(marker, root) == marker = root

\* crawlLoop(st): the for-loop of the top frame of st runs on, until the
\* next listing call (done = FALSE, the new top frame awaits its listing)
\* or until the outermost crawl returns (done = TRUE).
\* crawlEnter(st, path, depth): the call crawl(path, depth) made from st.
RECURSIVE crawlLoop(_), crawlEnter(_, _, _)
crawlLoop(st) ==
  LET n == Len(st)
      top == st[n]
  IN IF top.rest = <<>>
     THEN IF n = 1
          THEN [done |-> TRUE, result |-> top.collected, stack |-> <<>>]
          ELSE crawlLoop([SubSeq(st, 1, n - 1) EXCEPT
                 ![n - 1].collected = st[n - 1].collected \o top.collected])
     ELSE LET f == Head(top.rest)
              filePath == filePathOf(top.path, f)
              next == [st EXCEPT ![n].rest = Tail(top.rest)]
          IN IF f.type = "file"
             THEN crawlLoop([next EXCEPT
                    ![n].collected = Append(top.collected, [f EXCEPT !.path = filePath])])
             ELSE IF descends(f)
             THEN crawlEnter(next, filePath, top.depth + 1)
             ELSE crawlLoop(next)

crawlEnter(st, path, depth) ==
  IF depth > MaxDepth
  THEN IF st = <<>> THEN [done |-> TRUE, result |-> <<>>, stack |-> <<>>]
       ELSE crawlLoop(st)
  ELSE [done |-> FALSE, result |-> <<>>, stack |-> Append(st, Frame(path, depth))]

\* mutant: a listing that rejects starts the crawl over from the root
crawlReturnRestart(st, ok, list) ==
  IF ok THEN crawlLoop([st EXCEPT ![Len(st)].rest = list])
  ELSE crawlEnter(<<>>, st[1].path, 0)

\* mutant: a listing that rejects ends the whole crawl with nothing
crawlReturnFatal(st, ok, list) ==
  IF ok THEN crawlLoop([st EXCEPT ![Len(st)].rest = list])
  ELSE [done |-> TRUE, result |-> <<>>, stack |-> <<>>]

\* the listing awaited by the top frame resolves (ok) or rejects
crawlReturn(st, ok, list) ==
  IF ok THEN crawlLoop([st EXCEPT ![Len(st)].rest = list])
  ELSE crawlLoop([st EXCEPT ![Len(st)].rest = <<>>, ![Len(st)].collected = <<>>])

CrawlCall(id, stack) ==
  [by |-> id, kind |-> "crawl", path |-> stack[Len(stack)].path,
   depth |-> stack[Len(stack)].depth]
LoadCall(id, path) == [by |-> id, kind |-> "load", path |-> path, depth |-> 0]

\* onListFiles(path) rejects for a folder that cannot be listed
listable(path) == path \in DOMAIN disk

(***************************************************************************)
(* Initial state: no folder open, overlay not rendered                     *)
(***************************************************************************)
TabIdle ==
  /\ tabs = <<>>
  /\ activeTab = 0
  /\ untitledCounter = 1
  /\ saves = {}
  /\ now = 1

NoFiles == [p \in {} |-> 0]

\* no file, no WriteFile call
FsIdle ==
  /\ names = NoFiles
  /\ inodes = <<>>
  /\ calls = {}
  /\ nCalls = 0
  /\ ret = <<>>
  /\ alert = "none"

LaunchIdle ==
  /\ showLauncher = FALSE
  /\ mode = "actions"
  /\ browserPath = <<>>
  /\ browserFiles = <<>>
  /\ uQuery = <<>>
  /\ uSelectedIndex = 0
  /\ uIsLoading = FALSE
  /\ uLoads = {}
  /\ edFiles = <<>>
  /\ emitted = <<>>

EditorIdle == TabIdle /\ FsIdle /\ LaunchIdle

RecentIdle ==
  /\ recentFiles = <<>>
  /\ goRecent = <<>>
  /\ reads = {}
  /\ openLog = <<>>
  /\ overlaps = 0

RankIdle ==
  /\ rQuery = <<>>
  /\ rItems = <<>>
  /\ rScores = <<>>
  /\ rResult = <<>>
  /\ rPhase = "idle"

\* the overlay is not rendered and nothing is in flight
OverlayIdle ==
  /\ mounted = FALSE
  /\ query = <<>>
  /\ selectedIndex = 0
  /\ currentPath = <<>>
  /\ files = <<>>
  /\ allFiles = <<>>
  /\ isLoading = FALSE
  /\ isIndexing = FALSE
  /\ indexedRef = <<>>
  /\ lastProjectRef = <<>>
  /\ cache = EmptyCache
  /\ passes = {}
  /\ loads = {}
  /\ runs = 0
  /\ loadSeq = 0
  /\ issued = {}
  /\ lastInvoked = <<>>
  /\ rootChanged = FALSE
  /\ pubBy = 0
  /\ opened = <<>>

BrowserInit ==
  /\ currentProject = <<>>
  /\ OverlayIdle

(***************************************************************************)
(* loadFiles / navigateTo                                                  *)
(***************************************************************************)
\* navigateTo(path) up to its first suspension, run against the cache c
navigateTo(path, c) ==
  /\ currentPath' = path
  /\ cache' = c
  /\ IF path \in DOMAIN c
     THEN /\ files' = c[path]
          /\ isLoading' = FALSE
          /\ selectedIndex' = 0
          /\ query' = <<>>
          /\ UNCHANGED << loads, loadSeq >>
     ELSE /\ isLoading' = TRUE
          /\ loads' = loads \cup {[id |-> loadSeq + 1, path |-> path]}
          /\ loadSeq' = loadSeq + 1
          /\ UNCHANGED << files, selectedIndex, query >>

navigateCalls(path, c) ==
  IF path \in DOMAIN c THEN {} ELSE {LoadCall(loadSeq + 1, path)}

\* the listing awaited by loadFiles resolves or rejects; navigateTo finishes
LoadReturn(l) ==
  /\ l \in loads
  /\ loads' = loads \ {l}
  /\ issued' = {}
  /\ opened' = <<>>
  /\ cache' = IF listable(l.path)
              THEN [p \in DOMAIN cache \cup {l.path} |->
                      IF p = l.path THEN disk[p] ELSE cache[p]]
              ELSE cache
  /\ files' = IF listable(l.path) THEN disk[l.path] ELSE <<>>
  /\ isLoading' = FALSE
  /\ selectedIndex' = 0
  /\ query' = <<>>
  /\ UNCHANGED << mounted, currentProject, currentPath, allFiles, isIndexing,
                  indexedRef, lastProjectRef, passes, runs, loadSeq, disk,
                  lastInvoked, rootChanged, pubBy, rankVars, recentVars, editorVars >>

(***************************************************************************)
(* indexAllFiles                                                           *)
(***************************************************************************)
\* indexAllFiles(root) up to its first suspension; marker is indexedRef.current
indexAllFiles(root, marker) ==
  /\ lastInvoked' = root
  /\ rootChanged' = FALSE
  /\ runs' = runs + 1
  /\ IF alreadyIndexed(marker, root)
     THEN UNCHANGED << isIndexing, passes >>
     ELSE LET c == crawlEnter(<<>>, root, 0)
          IN /\ isIndexing' = TRUE
             /\ passes' = passes \cup
                  {[id |-> runs + 1, live |-> TRUE, root |-> root, stack |-> c.stack]}

indexCalls(root, marker) ==
  IF alreadyIndexed(marker, root) THEN {}
  ELSE {CrawlCall(runs + 1, crawlEnter(<<>>, root, 0).stack)}

\* the listing awaited by the innermost crawl of pass p resolves or rejects
CrawlReturn(p) ==
  LET path == p.stack[Len(p.stack)].path
      c == crawlReturn(p.stack, listable(path), IF listable(path) THEN disk[path] ELSE <<>>)
  IN /\ p \in passes
     /\ IF c.done
        THEN /\ passes' = passes \ {p}
             /\ issued' = {}
             /\ opened' = <<>>
             /\ IF p.live
                THEN /\ allFiles' = c.result
                     /\ indexedRef' = p.root
                     /\ isIndexing' = FALSE
                     /\ pubBy' = p.id
                ELSE UNCHANGED << allFiles, indexedRef, isIndexing, pubBy >>
        ELSE /\ passes' = (passes \ {p}) \cup {[p EXCEPT !.stack = c.stack]}
             /\ issued' = {CrawlCall(p.id, c.stack)}
             /\ opened' = <<>>
             /\ UNCHANGED << allFiles, indexedRef, isIndexing, pubBy >>
     /\ UNCHANGED << mounted, currentProject, query, selectedIndex, currentPath,
                     files, isLoading, lastProjectRef, cache, loads, runs,
                     loadSeq, disk, lastInvoked, rootChanged, rankVars, recentVars, editorVars >>

(***************************************************************************)
(* The init effect, mounting and unmounting, the props                     *)
(***************************************************************************)
effectRuns(cp, last) == cp # <<>> /\ last # cp

\* body of the first branch of the init effect
initEffect(cp) ==
  /\ runs < MaxRuns
  /\ allFiles' = <<>>
  /\ indexedRef' = <<>>
  /\ lastProjectRef' = cp
  /\ navigateTo(cp, EmptyCache)
  /\ indexAllFiles(cp, <<>>)
  /\ issued' = navigateCalls(cp, EmptyCache) \cup indexCalls(cp, <<>>)
  /\ opened' = <<>>

\* Ctrl+P: the parent renders a new FileBrowser; its init effect runs
Open ==
  /\ ~mounted
  /\ mounted' = TRUE
  /\ IF effectRuns(currentProject, <<>>)
     THEN /\ initEffect(currentProject)
          /\ UNCHANGED << currentProject, disk, pubBy, rankVars, recentVars, editorVars >>
     ELSE /\ issued' = {}
          /\ opened' = <<>>
          /\ UNCHANGED << currentProject, query, selectedIndex, currentPath,
                          files, allFiles, isLoading, isIndexing, indexedRef,
                          lastProjectRef, cache, passes, loads, runs, loadSeq,
                          disk, lastInvoked, rootChanged, pubBy, rankVars, recentVars, editorVars >>

\* onClose: the parent stops rendering FileBrowser; the instance and its
\* state are gone.  Its suspended crawls run on and keep listing; a suspended
\* loadFiles has issued its only listing call and can no longer change
\* anything, so it is dropped.
onClose ==
  /\ mounted' = FALSE
  /\ query' = <<>>
  /\ selectedIndex' = 0
  /\ currentPath' = <<>>
  /\ files' = <<>>
  /\ allFiles' = <<>>
  /\ isLoading' = FALSE
  /\ isIndexing' = FALSE
  /\ indexedRef' = <<>>
  /\ lastProjectRef' = <<>>
  /\ cache' = EmptyCache
  /\ pubBy' = 0
  /\ issued' = {}
  /\ passes' = {[p EXCEPT !.live = FALSE] : p \in passes}
  /\ loads' = {}
  /\ UNCHANGED << currentProject, runs, loadSeq, disk, lastInvoked,
                  rootChanged, rankVars >>

\* Escape, or the X button of the header
Close ==
  /\ mounted
  /\ onClose
  /\ opened' = <<>>
  /\ UNCHANGED << recentVars, editorVars >>

\* the parent opens another folder or closes the folder
SetCurrentProject(r) ==
  /\ r # currentProject
  /\ currentProject' = r
  /\ IF mounted /\ effectRuns(r, lastProjectRef)
     THEN /\ initEffect(r)
          /\ UNCHANGED << mounted, disk, pubBy, rankVars, recentVars, editorVars >>
     ELSE /\ rootChanged' = TRUE
          /\ issued' = {}
          /\ opened' = <<>>
          /\ UNCHANGED << mounted, query, selectedIndex, currentPath, files,
                          allFiles, isLoading, isIndexing, indexedRef,
                          lastProjectRef, cache, passes, loads, runs, loadSeq,
                          disk, lastInvoked, pubBy, rankVars, recentVars, editorVars >>

\* the input's onChange
SetQuery(q) ==
  /\ mounted
  /\ q # query
  /\ query' = q
  /\ issued' = {}
  /\ opened' = <<>>
  /\ UNCHANGED << mounted, currentProject, selectedIndex, currentPath, files,
                  allFiles, isLoading, isIndexing, indexedRef, lastProjectRef,
                  cache, passes, loads, runs, loadSeq, disk, lastInvoked,
                  rootChanged, pubBy, rankVars, recentVars, editorVars >>

ListLimit == 200

\* mutant: the listing is displayed in full
filteredFilesUncut ==
  IF \A k \in 1..Len(query) : query[k] = " "
  THEN files
  ELSE IF Len(allFiles) # 0 THEN fuzzySearch(query, allFiles)
  ELSE SelectSeq(files, LAMBDA f : includes(toLowerCase(f.name), toLowerCase(query)))

\* the useMemo filteredFiles
filteredFiles ==
  IF \A k \in 1..Len(query) : query[k] = " "
  THEN slice(files, 0, ListLimit)
  ELSE IF Len(allFiles) # 0 THEN fuzzySearch(query, allFiles)
  ELSE SelectSeq(files, LAMBDA f : includes(toLowerCase(f.name), toLowerCase(query)))

(***************************************************************************)
(* Opening a file: openFileFromPath of the parent, ReadFile of the backend *)
(***************************************************************************)
RecentLimit == 10

\* App.addToRecent of the backend
addToRecent(rf, filePath) ==
  LET hits == {i \in 1..Len(rf) : rf[i] = filePath}
      i == CHOOSE i \in hits : \A j \in hits : i <= j
      cut == IF hits = {} THEN rf
             ELSE SubSeq(rf, 1, i - 1) \o SubSeq(rf, i + 1, Len(rf))
      all == <<filePath>> \o cut
  IN IF Len(all) > RecentLimit THEN SubSeq(all, 1, RecentLimit) ELSE all

\* [filePath, ...recentFiles.filter(f => f !== filePath)].slice(0, 10)
updatedRecentFiles(rf, filePath) ==
  slice(<<filePath>> \o SelectSeq(rf, LAMBDA f : f # filePath), 0, RecentLimit)

NoTab == 0           \* activeTab = '' (Date.now() is never 0)
ReadText == <<"r">>  \* the text ReadFile returns

\* filePath.split('/').pop() || filePath
fileNameOf(filePath) ==
  LET cuts == {k \in 1..Len(filePath) : filePath[k] = "/"}
      last == IF cuts = {} THEN 0 ELSE CHOOSE k \in cuts : \A j \in cuts : j <= k
  IN IF last = Len(filePath) THEN filePath
     ELSE SubSeq(filePath, last + 1, Len(filePath))

Tab(i, n, c, d, p) ==
  [id |-> i, name |-> n, content |-> c, isDirty |-> d, filePath |-> p]

\* ts.find(tab => pred(tab)) is defined
found(ts, pred(_)) == \E k \in 1..Len(ts) : pred(ts[k])
find(ts, pred(_)) ==
  ts[CHOOSE k \in 1..Len(ts) : pred(ts[k]) /\ \A j \in 1..(k - 1) : ~pred(ts[j])]

\* openFileFromPath(filePath) up to the await of ReadFile; the call keeps
\* the recentFiles and the tabs of the render that created it
awaitReadFile(filePath) ==
  /\ reads' = reads \cup
       {[path |-> filePath, snap |-> recentFiles, tabs |-> tabs]}
  /\ overlaps' = IF reads = {} THEN overlaps ELSE overlaps + 1
  /\ UNCHANGED << recentFiles, goRecent, openLog >>

\* openFileFromPath(filePath) called with the rest of the Editor at rest
openFileFromPath(filePath) ==
  /\ awaitReadFile(filePath)
  /\ UNCHANGED editorVars

\* the tab part of openFileFromPath after the await
openedTabs(r) ==
  IF found(r.tabs, LAMBDA tab : tab.filePath = r.path)
  THEN /\ activeTab' = find(r.tabs, LAMBDA tab : tab.filePath = r.path).id
       /\ UNCHANGED tabs
  ELSE /\ tabs' = Append(r.tabs, Tab(now, fileNameOf(r.path), ReadText, FALSE, r.path))
       /\ activeTab' = now

\* ReadFile returns the content (ok) or an error; openFileFromPath finishes
ReadReturn(r, ok) ==
  /\ r \in reads
  /\ reads' = reads \ {r}
  /\ IF ok
     THEN /\ goRecent' = addToRecent(goRecent, r.path)
          /\ recentFiles' = updatedRecentFiles(r.snap, r.path)
          /\ openLog' = Append(openLog, r.path)
          /\ openedTabs(r)
     ELSE UNCHANGED << recentFiles, goRecent, openLog, tabs, activeTab >>
  /\ UNCHANGED << overlaps, browserVars, rankVars, untitledCounter, saves, now,
                  fsVars, launchVars >>

(***************************************************************************)
(* handleKey                                                               *)
(***************************************************************************)
MaxLoads == 4        \* listing calls of loadFiles in one behaviour

Min(a, b) == IF a < b THEN a ELSE b
Max(a, b) == IF a > b THEN a ELSE b

ArrowDown ==
  /\ mounted
  /\ selectedIndex' = Min(selectedIndex + 1, Len(filteredFiles) - 1)
  /\ issued' = {}
  /\ opened' = <<>>
  /\ UNCHANGED << mounted, currentProject, query, currentPath, files, allFiles,
                  isLoading, isIndexing, indexedRef, lastProjectRef, cache,
                  passes, loads, runs, loadSeq, disk, lastInvoked, rootChanged,
                  pubBy, rankVars, recentVars, editorVars >>

ArrowUp ==
  /\ mounted
  /\ selectedIndex' = Max(selectedIndex - 1, 0)
  /\ issued' = {}
  /\ opened' = <<>>
  /\ UNCHANGED << mounted, currentProject, query, currentPath, files, allFiles,
                  isLoading, isIndexing, indexedRef, lastProjectRef, cache,
                  passes, loads, runs, loadSeq, disk, lastInvoked, rootChanged,
                  pubBy, rankVars, recentVars, editorVars >>

\* filteredFiles[selectedIndex] is an entry
hasSelected == 0 <= selectedIndex /\ selectedIndex < Len(filteredFiles)
selected == filteredFiles[selectedIndex + 1]

\* Enter on a folder: navigateTo(f.path)
EnterFolder ==
  /\ mounted
  /\ hasSelected
  /\ selected.type = "folder"
  /\ selected.path \in DOMAIN cache \/ loadSeq < MaxLoads
  /\ navigateTo(selected.path, cache)
  /\ issued' = navigateCalls(selected.path, cache)
  /\ opened' = <<>>
  /\ UNCHANGED << mounted, currentProject, allFiles, isIndexing, indexedRef,
                  lastProjectRef, passes, runs, disk, lastInvoked, rootChanged,
                  pubBy, rankVars, recentVars, editorVars >>

\* mutant: the overlay stays open
EnterFileStaysOpen ==
  /\ mounted
  /\ hasSelected
  /\ selected.type # "folder"
  /\ opened' = <<selected.path>>
  /\ openFileFromPath(selected.path)
  /\ issued' = {}
  /\ UNCHANGED << mounted, currentProject, query, selectedIndex, currentPath,
                  files, allFiles, isLoading, isIndexing, indexedRef,
                  lastProjectRef, cache, passes, loads, runs, loadSeq, disk,
                  lastInvoked, rootChanged, pubBy, rankVars >>

\* Enter on a file: onOpenFile(f.path); onClose()
EnterFile ==
  /\ mounted
  /\ hasSelected
  /\ selected.type # "folder"
  /\ opened' = <<selected.path>>
  /\ openFileFromPath(selected.path)
  /\ onClose

\* the overlay with its keys on the folder that is open; the ReadFile calls
\* started by Enter stay pending
KeysNext(Q) ==
  \/ Open
  \/ Close
  \/ \E q \in Q : SetQuery(q)
  \/ \E l \in loads : LoadReturn(l)
  \/ \E p \in passes : CrawlReturn(p)
  \/ ArrowDown
  \/ ArrowUp
  \/ EnterFolder
  \/ EnterFile

\* the overlay used on the folders in R with the queries in Q
BrowserNext(R, Q) ==
  \/ Open
  \/ Close
  \/ \E r \in R \cup {<<>>} : SetCurrentProject(r)
  \/ \E q \in Q : SetQuery(q)
  \/ \E l \in loads : LoadReturn(l)
  \/ \E p \in passes : CrawlReturn(p)

(***************************************************************************)
(* Spec: the overlay on /w and /w/dist                                     *)
(***************************************************************************)
Roots == {sW, sDist}
Queries == {<<>>, <<"f">>}

Init ==
  /\ BrowserInit
  /\ disk = BaseDisk
  /\ RankIdle
  /\ RecentIdle
  /\ EditorIdle

Next == BrowserNext(Roots, Queries)

Spec == Init /\ [][Next]_vars

(***************************************************************************)
(* SpecProj: the overlay on /proj, for every order of the listing of /proj *)
(***************************************************************************)
ProjRoots == {sProj}
ProjQueries == {<<>>, qReadme, qMain}

InitProj ==
  /\ BrowserInit
  /\ disk \in Disks
  /\ RankIdle
  /\ RecentIdle
  /\ EditorIdle

NextProj == BrowserNext(ProjRoots, ProjQueries)

SpecProj == InitProj /\ [][NextProj]_vars

(***************************************************************************)
(* SpecKeys: the overlay on /proj, driven with the keyboard                *)
(***************************************************************************)
KeyQueries == {<<>>, qMain}

\* the folder /proj has been opened, the overlay is not shown
InitKeys ==
  /\ currentProject = sProj
  /\ OverlayIdle
  /\ disk = BaseDisk
  /\ RankIdle
  /\ RecentIdle
  /\ EditorIdle

NextKeys == KeysNext(KeyQueries)

SpecKeys == InitKeys /\ [][NextKeys]_vars

(***************************************************************************)
(* SpecBig: the overlay on /big, whose folder build holds BigLen files.    *)
(* The selection stays where navigateTo puts it.                           *)
(***************************************************************************)
BigLen == 201        \* number of files in /big/build

sBig == <<"/", "b", "i", "g">>
sBigBuild == sBig \o SLASH \o nBuild
Digits == <<"0", "1", "2", "3", "4", "5", "6", "7", "8", "9">>
eName(k) ==
  <<"e", Digits[((k \div 100) % 10) + 1], Digits[((k \div 10) % 10) + 1],
    Digits[(k % 10) + 1]>>

BigDisk ==
  [p \in {sBig, sBigBuild} |->
     IF p = sBig
     THEN << FileItem(nBuild, "folder", sBigBuild, 0),
             FileItem(<<"x">>, "file", sBig \o SLASH \o <<"x">>, 1) >>
     ELSE [k \in 1..BigLen |->
             FileItem(eName(k), "file", sBigBuild \o SLASH \o eName(k), k)]]

BigQueries == {<<>>, <<" ">>, <<"x">>}

\* the folder /big has been opened, the overlay is not shown
InitBig ==
  /\ currentProject = sBig
  /\ OverlayIdle
  /\ disk = BigDisk
  /\ RankIdle
  /\ RecentIdle
  /\ EditorIdle

NextBig ==
  \/ Open
  \/ Close
  \/ \E q \in BigQueries : SetQuery(q)
  \/ \E l \in loads : LoadReturn(l)
  \/ \E p \in passes : CrawlReturn(p)
  \/ EnterFolder
  \/ EnterFile

SpecBig == InitBig /\ [][NextBig]_vars

(***************************************************************************)
(* SpecRecent: files opened one after another or while an earlier          *)
(* ReadFile is still pending.  The files are named in the order in which   *)
(* they are first opened.                                                  *)
(***************************************************************************)
MaxPaths == 11       \* distinct files opened
MaxOpens == 12       \* calls of openFileFromPath in one behaviour
MaxReopens == 1      \* calls for a file that has been opened before
MaxReads == 2        \* ReadFile calls pending at a time
MaxOverlaps == 1     \* calls made while another is pending

PathNames == <<"a", "b", "c", "d", "e", "f", "g", "h", "i", "j", "k", "l", "m", "n">>
OpenPath(k) == <<"/", "f", "/", PathNames[k]>>

Known == {openLog[i] : i \in 1..Len(openLog)} \cup {r.path : r \in reads}
Opens == Len(openLog) + Cardinality(reads)

InitRecent ==
  /\ BrowserInit
  /\ disk = BaseDisk
  /\ RankIdle
  /\ RecentIdle
  /\ EditorIdle

\* a click on a file of the explorer or of the welcome page
OpenFile(k) ==
  /\ k <= Cardinality(Known) + 1
  /\ Opens < MaxOpens
  /\ Cardinality(reads) < MaxReads
  /\ reads # {} => overlaps < MaxOverlaps
  /\ OpenPath(k) \in Known => Opens - Cardinality(Known) < MaxReopens
  /\ openFileFromPath(OpenPath(k))
  /\ UNCHANGED << browserVars, rankVars >>

NextRecent ==
  \/ \E k \in 1..MaxPaths : OpenFile(k)
  \/ \E r \in reads, ok \in BOOLEAN : ReadReturn(r, ok)

SpecRecent == InitRecent /\ [][NextRecent]_vars

(***************************************************************************)
(* SpecLive: the overlay on /w, every listing call of a pass returning or  *)
(* failing in the end.  A path names a directory; the folders d of /w are   *)
(* nested deeper than a pass goes, as are those of a cyclic link.          *)
(***************************************************************************)
LiveRoots == {sW}

\* the steps that start, move and end passes; the query plays no part
NextLive ==
  \/ Open
  \/ Close
  \/ \E r \in LiveRoots \cup {<<>>} : SetCurrentProject(r)
  \/ \E l \in loads : LoadReturn(l)
  \/ \E p \in passes : CrawlReturn(p)

\* pass i is suspended in the await of a listing call
InFlight(i) == \E p \in passes : p.id = i

\* the listing awaited by pass i resolves or rejects: its crawl moves on or ends
PassMoves(i) ==
  \E p \in passes : p.id = i /\ \A q \in passes' : q.id = i => q.stack # p.stack

\* Weak fairness of CrawlReturn for pass i, which is enabled exactly while
\* the pass is in flight: no listing call stays unanswered for ever.
ListingReturns(i) == []<>~InFlight(i) \/ []<><<PassMoves(i)>>_vars

SpecLive ==
  /\ Init
  /\ [][NextLive]_vars
  /\ \A i \in 1..MaxRuns : ListingReturns(i)

(***************************************************************************)
(* SpecRank: fuzzySearch applied to every query and every candidate list   *)
(* within the bounds.  The size field numbers the candidates in input      *)
(* order.                                                                  *)
(***************************************************************************)
\* Names are written with a and B, queries with A and b, so that a query
\* matches a name only through toLowerCase; ASTRAL is a one-character name
\* and query outside the basic plane.
NameChars == {<<"a">>, <<"B">>}
QueryChars == {<<"A">>, <<"b">>}
ASTRAL == <<"hi", "lo">>
RankDirs == {<<"/", "B">>}

RECURSIVE Strings(_, _)
Strings(chars, maxLen) ==
  IF maxLen = 0 THEN {<<>>}
  ELSE {<<>>} \cup {c \o str : c \in chars, str \in Strings(chars, maxLen - 1)}

RankNames == (Strings(NameChars, MaxNameLen) \ {<<>>}) \cup {ASTRAL}
RankQueries == (Strings(QueryChars, MaxQueryLen) \ {<<>>}) \cup {ASTRAL}

RankStart ==
  /\ rItems = <<>>
  /\ rScores = <<>>
  /\ rResult = <<>>
  /\ rPhase = "build"
  /\ BrowserInit
  /\ disk = BaseDisk
  /\ RecentIdle
  /\ EditorIdle

InitRank ==
  /\ rQuery \in RankQueries
  /\ RankStart

AddCandidate(n, d) ==
  /\ rPhase = "build"
  /\ Len(rItems) < MaxItems
  /\ rItems' = Append(rItems, FileItem(n, "file", d \o SLASH \o n, Len(rItems) + 1))
  /\ UNCHANGED << rQuery, rScores, rResult, rPhase, browserVars, recentVars, editorVars >>

\* fuzzySearch(rQuery, rItems); rScores keeps the s computed for each item
RunRank ==
  /\ rPhase = "build"
  /\ rScores' = [k \in 1..Len(rItems) |-> scoreOf(rQuery, rItems[k])]
  /\ rResult' = fuzzySearch(rQuery, rItems)
  /\ rPhase' = "done"
  /\ UNCHANGED << rQuery, rItems, browserVars, recentVars, editorVars >>

NextRank ==
  \/ \E n \in RankNames, d \in RankDirs : AddCandidate(n, d)
  \/ RunRank

SpecRank == InitRank /\ [][NextRank]_vars

(***************************************************************************)
(* SpecTop: fuzzySearch applied to candidate lists longer than the result  *)
(* limit: a periodic list of MaxCorpus - 3 candidates, then any three.     *)
(***************************************************************************)
TopDir == <<"/", "a">>
TopNames == << <<"a">>, <<"a", "b">>, <<"A">>, <<"b">> >>
TopQueries == { <<"a">>, <<"b">> }

TopBase(off) ==
  [k \in 1..(MaxCorpus - 3) |->
     LET n == TopNames[((k + off) % Len(TopNames)) + 1]
     IN FileItem(n, "file", TopDir \o SLASH \o n, k)]

InitTop ==
  /\ rQuery \in TopQueries
  /\ rItems \in {TopBase(off) : off \in 0..(Len(TopNames) - 1)}
  /\ rScores = <<>>
  /\ rResult = <<>>
  /\ rPhase = "build"
  /\ BrowserInit
  /\ disk = BaseDisk
  /\ RecentIdle
  /\ EditorIdle

AddTop(n) ==
  /\ rPhase = "build"
  /\ Len(rItems) < MaxCorpus
  /\ rItems' = Append(rItems, FileItem(n, "file", TopDir \o SLASH \o n, Len(rItems) + 1))
  /\ UNCHANGED << rQuery, rScores, rResult, rPhase, browserVars, recentVars, editorVars >>

NextTop ==
  \/ \E k \in 1..Len(TopNames) : AddTop(TopNames[k])
  \/ RunRank

SpecTop == InitTop /\ [][NextTop]_vars

(***************************************************************************)
(* The scoring function as the specification states it                     *)
(***************************************************************************)
RefFold(str) ==
  [k \in 1..Len(str) |->
     IF str[k] \in UpperChars
     THEN CHOOSE c \in {"a", "b", "r"} : <<str[k], c>> \in {<<"A", "a">>, <<"B", "b">>, <<"R", "r">>}
     ELSE str[k]]

RefStartsWith(str, t) == \E rest \in {SubSeq(str, Len(t) + 1, Len(str))} : str = t \o rest
RefContains(str, t) == \E k \in 0..Len(str) : RefStartsWith(SubSeq(str, k + 1, Len(str)), t)

\* the characters of str: a surrogate pair is one character
RECURSIVE RefChars(_)
RefChars(str) ==
  IF str = <<>> THEN <<>>
  ELSE IF Len(str) >= 2 /\ SubSeq(str, 1, 2) = <<"hi", "lo">>
  THEN << <<"hi", "lo">> >> \o RefChars(SubSeq(str, 3, Len(str)))
  ELSE << <<Head(str)>> >> \o RefChars(Tail(str))

\* number of characters of name that equal the next unconsumed character of t
RECURSIVE RefMatched(_, _)
RefMatched(name, t) ==
  IF name = <<>> \/ t = <<>> THEN 0
  ELSE IF Head(name) = Head(t) THEN 1 + RefMatched(Tail(name), Tail(t))
  ELSE RefMatched(Tail(name), t)

RefScore(q, f) ==
  LET t == RefFold(q)
      name == RefFold(f.name)
      path == RefFold(f.path)
  IN (IF name = t THEN 900 ELSE 0)
     + (IF RefStartsWith(name, t) THEN 500 ELSE 0)
     + (IF RefContains(name, t) THEN 250 ELSE 0)
     + (IF RefContains(path, t) THEN 120 ELSE 0)
     + 15 * RefMatched(RefChars(name), RefChars(t))

RefExact(q, f) == RefFold(f.name) = RefFold(q)

Range(sq) == {sq[k] : k \in 1..Len(sq)}

\* C1: the score fuzzySearch computes for a candidate is the additive
\* reference score: 900 exact + 500 prefix + 250 name contains + 120 path
\* contains + 15 per character of the name that equals the next unconsumed
\* character of the query, case-insensitively.
C1_Claim ==
  rPhase = "done" =>
    \A k \in 1..Len(rItems) : rScores[k] = RefScore(rQuery, rItems[k])

\* C2: every entry fuzzySearch returns has a strictly positive score, and a
\* candidate whose score is 0 is not returned.
C2_OnlyPositive ==
  rPhase = "done" =>
    /\ \A k \in 1..Len(rResult) : RefScore(rQuery, rResult[k]) > 0
    /\ \A k \in 1..Len(rItems) :
         RefScore(rQuery, rItems[k]) = 0 => rItems[k] \notin Range(rResult)

C2_Witness ==
  /\ rPhase = "done"
  /\ rResult # <<>>
  /\ \E k \in 1..Len(rItems) : RefScore(rQuery, rItems[k]) = 0

\* C3: a candidate whose name equals the query (case-insensitively) is
\* returned, and it is placed above every returned candidate whose name does
\* not equal the query.
C3_ExactFirst ==
  rPhase = "done" =>
    /\ \A i, j \in 1..Len(rResult) :
         (RefExact(rQuery, rResult[i]) /\ ~RefExact(rQuery, rResult[j])) => i < j
    /\ \A k \in 1..Len(rItems) :
         (RefExact(rQuery, rItems[k]) /\ Len(rItems) <= ResultLimit)
           => rItems[k] \in Range(rResult)

\* the exact match is listed after a matching candidate that is not exact
C3_Witness ==
  /\ rPhase = "done"
  /\ \E i, j \in 1..Len(rItems) :
       /\ i < j
       /\ RefExact(rQuery, rItems[j])
       /\ ~RefExact(rQuery, rItems[i])
       /\ rItems[i] \in Range(rResult)
       /\ Len(rItems[i].name) > Len(rItems[j].name)

\* C4: the result has at most 50 entries and is the first 50 entries of the
\* score-sorted sequence: a candidate with a positive computed score is left
\* out only when 50 entries that sort before it are returned.
C4_TopFifty ==
  rPhase = "done" =>
    /\ Len(rResult) <= 50
    /\ \A k \in 1..Len(rItems) :
         (rScores[rItems[k].size] > 0 /\ rItems[k] \notin Range(rResult)) =>
           /\ Len(rResult) = 50
           /\ \A i \in 1..Len(rResult) :
                \/ rScores[rResult[i].size] > rScores[rItems[k].size]
                \/ /\ rScores[rResult[i].size] = rScores[rItems[k].size]
                   /\ rResult[i].size < rItems[k].size

\* more than 50 candidates score above 0 and the result is cut to 50
C4_Witness ==
  /\ rPhase = "done"
  /\ Cardinality({k \in 1..Len(rItems) : rScores[rItems[k].size] > 0}) > 50
  /\ Len(rResult) = 50

\* C5: the result is in descending order of computed score, and candidates
\* of equal computed score keep the relative order they have in the input.
C5_SortedStable ==
  rPhase = "done" =>
    \A i, j \in 1..Len(rResult) :
      i < j =>
        /\ rScores[rResult[i].size] >= rScores[rResult[j].size]
        /\ rScores[rResult[i].size] = rScores[rResult[j].size]
             => rResult[i].size < rResult[j].size

\* two returned candidates tie, and the sort has moved a candidate
C5_Witness ==
  /\ rPhase = "done"
  /\ \E i, j \in 1..Len(rResult) :
       i < j /\ rScores[rResult[i].size] = rScores[rResult[j].size]
  /\ \E i \in 1..Len(rResult) : rResult[i].size > i + 10

(***************************************************************************)
(* The indexed corpus of /proj                                             *)
(***************************************************************************)
\* the index of /proj is published and the query "readme" is typed
ProjIndexed ==
  /\ mounted
  /\ indexedRef = sProj
  /\ query = qReadme

PositionsOf(n, sq) == {k \in 1..Len(sq) : sq[k].name = n}

Slashes(path) == Cardinality({k \in 1..Len(path) : path[k] = "/"})

\* the last component of a path
BaseName(path) ==
  LET last == CHOOSE k \in 1..Len(path) :
                path[k] = "/" /\ \A j \in (k + 1)..Len(path) : path[j] # "/"
  IN SubSeq(path, last + 1, Len(path))

IgnoredName(n) == n \in {nNodeModules, nBuild, nDist} \/ Head(n) = "."

CrawlCalls == {c \in issued : c.kind = "crawl"}
RootOf(c) == (CHOOSE p \in passes : p.id = c.by).root

\* C7 as stated: no listing call of an indexing pass is for a directory more
\* than 6 levels below the root, nor for a directory named node_modules,
\* build, dist or starting with '.'.
C7_Claim ==
  \A c \in CrawlCalls :
    /\ Slashes(c.path) - Slashes(RootOf(c)) <= 6
    /\ ~IgnoredName(BaseName(c.path))

\* C7 amended: no listing call of an indexing pass is for a directory more
\* than 6 levels below the root, nor for a directory below the root named
\* node_modules, build, dist or starting with '.'; the root itself is listed
\* whatever its name.
C7_DepthAndIgnore ==
  \A c \in CrawlCalls :
    /\ Slashes(c.path) - Slashes(RootOf(c)) <= 6
    /\ c.path # RootOf(c) => ~IgnoredName(BaseName(c.path))

\* the pass over /w lists the folder 6 levels below /w, having passed over
\* node_modules, build, dist and .g
C7_Witness ==
  \E c \in CrawlCalls :
    /\ RootOf(c) = sW
    /\ Slashes(c.path) - Slashes(sW) = 6
    /\ c.path = chainDir(6)

\* C8: an invocation of indexAllFiles for the root of the previous
\* invocation, that invocation having completed and the root not having
\* changed in between, issues no listing call.
C8_Claim ==
  [][ ( /\ runs' = runs + 1
        /\ lastInvoked # <<>>
        /\ lastInvoked' = lastInvoked
        /\ ~rootChanged
        /\ currentProject' = currentProject
        /\ passes = {} )
      => CrawlCalls' = {} ]_vars

\* C9: at most one indexing pass is in flight at any time for a given root.
C9_Claim ==
  \A r \in Roots : Cardinality({p \in passes : p.root = r}) <= 1

\* C10: when a pass completes after a newer pass for a different root has
\* published its index, the published index and the already-indexed marker
\* stay those of the newer pass.
C10_Claim ==
  [][ \A p \in passes :
        ( /\ p.live
          /\ \A q \in passes' : q.id # p.id
          /\ pubBy > p.id
          /\ indexedRef # <<>>
          /\ indexedRef # p.root )
        => (allFiles' = allFiles /\ indexedRef' = indexedRef) ]_vars

(***************************************************************************)
(* The published index while a pass is in progress                         *)
(***************************************************************************)
\* a pass of the rendered overlay completes in this step
PassCompletes == \E p \in passes : p.live /\ \A q \in passes' : q.id # p.id

\* C11: a published index stays the corpus of the rendered overlay until a
\* pass completes; no other step replaces or empties it.
C11_Claim ==
  [][ (mounted /\ mounted' /\ allFiles # <<>> /\ allFiles' # allFiles)
      => PassCompletes ]_vars

(***************************************************************************)
(* The files a pass must publish                                           *)
(***************************************************************************)
\* the directories on the way from root down to p, root excluded, p included
StepsBelow(root, p) ==
  {SubSeq(p, 1, k) : k \in {k \in (Len(root) + 1)..Len(p) :
                               k = Len(p) \/ p[k + 1] = "/"}}

\* the directories a pass over root has to list: root, and every directory
\* at most 6 levels below it that is reached through listable directories
\* without passing an ignored name
Reached(root) ==
  {p \in DOMAIN disk :
     \/ p = root
     \/ /\ startsWith(p, root \o SLASH)
        /\ Slashes(p) - Slashes(root) <= 6
        /\ \A q \in StepsBelow(root, p) : q \in DOMAIN disk /\ ~IgnoredName(BaseName(q))}

ExpectedFiles(root) ==
  UNION {{IF disk[p][k].path # <<>> THEN disk[p][k].path
          ELSE p \o SLASH \o disk[p][k].name :
            k \in {k \in 1..Len(disk[p]) : disk[p][k].type = "file"}} :
         p \in Reached(root)}

\* C12: a published index holds exactly the files of the directories the
\* pass has to list, one entry each; a folder whose listing fails adds
\* nothing and takes nothing away.
C12_FailureScoped ==
  indexedRef # <<>> =>
    /\ {allFiles[k].path : k \in 1..Len(allFiles)} = ExpectedFiles(indexedRef)
    /\ Len(allFiles) = Cardinality(ExpectedFiles(indexedRef))

\* the index of /w is published: the listing of /w/locked has failed, and
\* the file of /w and the files of the six folders below it are there
C12_Witness ==
  /\ indexedRef = sW
  /\ \E k \in 1..Len(disk[sW]) :
       disk[sW][k].name = nLocked /\ ~listable(sW \o SLASH \o nLocked)
  /\ Len(allFiles) = 7

(***************************************************************************)
(* Termination of a pass                                                   *)
(***************************************************************************)
\* C13: every pass that is in flight ends, every listing call made for it
\* returning or failing; the step in which a pass of the rendered overlay
\* ends leaves isIndexing false.
C13_Terminates ==
  /\ \A i \in 1..MaxRuns : InFlight(i) ~> ~InFlight(i)
  /\ [][PassCompletes => ~isIndexing']_vars

\* the pass over /w has ended and cleared the flag, with folders left
\* unlisted below the last level it lists
C13_Witness ==
  /\ mounted
  /\ indexedRef = sW
  /\ passes = {}
  /\ ~isIndexing
  /\ listable(chainDir(MaxDepth + 1))
  /\ \A k \in 1..Len(allFiles) : Slashes(allFiles[k].path) - Slashes(sW) <= MaxDepth + 1

(***************************************************************************)
(* The listing cache                                                       *)
(***************************************************************************)
LoadCalls == {c \in issued : c.kind = "load"}

\* C14: the root was loaded when indexAllFiles was last invoked (the init
\* effect does both); unless the project root has changed since, no further
\* listing call is issued to load that directory.
C14_Claim ==
  [][ \A c \in LoadCalls' :
        (lastInvoked # <<>> /\ c.path = lastInvoked) => rootChanged ]_vars


\* C15: the cache of the rendered overlay holds listings of the active
\* project root and of directories below it only; what was stored for
\* another root is gone once the root has changed.
C15_Claim ==
  (mounted /\ currentProject # <<>>) =>
    \A p \in DOMAIN cache :
      p = currentProject \/ startsWith(p, currentProject \o SLASH)

(***************************************************************************)
(* What the overlay displays                                               *)
(***************************************************************************)
\* C17: with a query typed and no index, the overlay displays what
\* fuzzySearch returns for the listing of the current directory.
C17_Claim ==
  (mounted /\ query # <<>> /\ allFiles = <<>>) =>
    filteredFiles = fuzzySearch(query, files)


C18_Claim ==
  mounted =>
    /\ selectedIndex >= 0
    /\ filteredFiles # <<>> => selectedIndex <= Len(filteredFiles) - 1


LastRead(p) == CHOOSE i \in 1..Len(openLog) :
                 openLog[i] = p /\ \A j \in (i + 1)..Len(openLog) : openLog[j] # p

\* the files read so far, each once, the most recently read first, cut to 10
RefRecent ==
  LET D == {openLog[i] : i \in 1..Len(openLog)}
      at(p) == 1 + Cardinality({q \in D : LastRead(q) > LastRead(p)})
  IN [k \in 1..Min(Cardinality(D), 10) |-> CHOOSE p \in D : at(p) = k]

\* C20: the recent-files list of the backend, and that of the window once
\* no open is pending, holds the 10 most recently opened distinct files, the
\* most recent first.
C20_Claim ==
  /\ goRecent = RefRecent
  /\ reads = {} => recentFiles = RefRecent


(***************************************************************************)
(* The displayed listing and the indexing flag under overlapping calls     *)
(***************************************************************************)
\* what onListFiles reports for path, as loadFiles stores it
Listing(path) == IF listable(path) THEN disk[path] ELSE <<>>

\* C25: once no directory load is in flight, the entries the overlay holds
\* are the listing of the path shown in its header.
C25_Claim ==
  mounted /\ loads = {} => files = Listing(currentPath)

\* C26: the indexing flag of the overlay is true exactly when one of its
\* indexing passes is in flight.
C26_Claim ==
  mounted => (isIndexing <=> \E p \in passes : p.live)


(***************************************************************************)
(* WriteFile of the backend on a file system of names and inodes, and the  *)
(* catch blocks of its callers                                             *)
(***************************************************************************)
sPermission ==
  <<"p", "e", "r", "m", "i", "s", "s", "i", "o", "n">>
sPermissionCap ==
  <<"P", "e", "r", "m", "i", "s", "s", "i", "o", "n">>
sReadOnly ==
  <<"r", "e", "a", "d", "-", "o", "n", "l", "y">>
sAlreadyExists ==
  <<"a", "l", "r", "e", "a", "d", "y", " ", "e", "x", "i", "s", "t", "s">>
sFile ==
  <<"f", "i", "l", "e", " ">>
sIsReadOnly ==
  <<" ", "i", "s", " ", "r", "e", "a", "d", "-", "o", "n", "l", "y">>
sNoWrite ==
  <<"n", "o", " ", "w", "r", "i", "t", "e", " ", "p", "e", "r", "m", "i",
    "s", "s", "i", "o", "n", " ", "i", "n", " ", "d", "i", "r", "e", "c",
    "t", "o", "r", "y", " ">>
sColon ==
  <<":", " ">>
sOpen ==
  <<"o", "p", "e", "n", " ">>
sWrite ==
  <<"w", "r", "i", "t", "e", " ">>
sRename ==
  <<"r", "e", "n", "a", "m", "e", " ">>
sSpace ==
  <<" ">>
sDenied ==
  <<":", " ", "p", "e", "r", "m", "i", "s", "s", "i", "o", "n", " ", "d",
    "e", "n", "i", "e", "d">>
sNoSpace ==
  <<":", " ", "n", "o", " ", "s", "p", "a", "c", "e", " ", "l", "e", "f",
    "t", " ", "o", "n", " ", "d", "e", "v", "i", "c", "e">>
sNoEntry ==
  <<":", " ", "n", "o", " ", "s", "u", "c", "h", " ", "f", "i", "l", "e",
    " ", "o", "r", " ", "d", "i", "r", "e", "c", "t", "o", "r", "y">>
sTempFailed ==
  <<"f", "a", "i", "l", "e", "d", " ", "t", "o", " ", "w", "r", "i", "t",
    "e", " ", "t", "e", "m", "p", "o", "r", "a", "r", "y", " ", "f", "i",
    "l", "e", ":", " ">>
sSaveFailed ==
  <<"f", "a", "i", "l", "e", "d", " ", "t", "o", " ", "s", "a", "v", "e",
    " ", "f", "i", "l", "e", ":", " ">>
sDotTmp ==
  <<".", "t", "m", "p">>
sWriteTest ==
  <<".", "w", "r", "i", "t", "e", "_", "t", "e", "s", "t", "_">>

sD == <<"/", "d">>   \* a directory the user may write
sR == <<"/", "r">>   \* a directory that denies write access
WritableDirs == {sD}

\* filepath.Dir, filepath.Base of a path below a directory
lastSlash(path) ==
  CHOOSE k \in 1..Len(path) :
    path[k] = "/" /\ \A j \in (k + 1)..Len(path) : path[j] # "/"
Dir(path) ==
  IF lastSlash(path) = 1 THEN SLASH ELSE SubSeq(path, 1, lastSlash(path) - 1)
Base(path) == SubSeq(path, lastSlash(path) + 1, Len(path))

\* filePath + ".tmp"
tempFile(filePath) == filePath \o sDotTmp
\* filepath.Join(dir, ".write_test_"+filepath.Base(filePath))
testFile(filePath) == Dir(filePath) \o SLASH \o sWriteTest \o Base(filePath)

fA == sD \o SLASH \o <<"a">>       \* a file of /d
fRo == sD \o SLASH \o <<"r", "o">> \* a file of /d without the write bit
fN == sD \o SLASH \o <<"n">>       \* no file yet
fRa == sR \o SLASH \o <<"a">>      \* a file of /r
Targets == {fA, fRo, fN, fRa}
FsPaths ==
  Targets \cup {tempFile(t) : t \in Targets} \cup {testFile(t) : t \in Targets}

OldText == <<"o", "l", "d">>
NewText == <<"x", "y">>

\* the files before the first call: /d/a, /d/ro (read-only), /r/a, and a
\* file the user has named /d/a.tmp
StartNames ==
  [p \in {fA, fRo, fRa, tempFile(fA)} |->
     IF p = fA THEN 1 ELSE IF p = fRo THEN 2 ELSE IF p = fRa THEN 3 ELSE 4]
StartInodes ==
  << [data |-> OldText, ro |-> FALSE], [data |-> OldText, ro |-> TRUE],
     [data |-> OldText, ro |-> FALSE], [data |-> OldText, ro |-> FALSE] >>

bind(ns, p, i) == [q \in DOMAIN ns \cup {p} |-> IF q = p THEN i ELSE ns[q]]
unbind(ns, p) == [q \in DOMAIN ns \ {p} |-> ns[q]]

\* the content of the file named p, or that there is none
fileOf(ns, is, p) ==
  IF p \in DOMAIN ns THEN <<TRUE, is[ns[p]].data>> ELSE <<FALSE, <<>> >>
view(ns, is) == [p \in FsPaths |-> fileOf(ns, is, p)]

\* open(p, O_WRONLY|O_CREATE|O_TRUNC) succeeds
openable(p) ==
  IF p \in DOMAIN names THEN ~inodes[names[p]].ro ELSE Dir(p) \in WritableDirs

\* the names and inodes after open(p, O_WRONLY|O_CREATE|O_TRUNC, perm)
openedNames(p) ==
  IF p \in DOMAIN names THEN names ELSE bind(names, p, Len(inodes) + 1)
openedInodes(p, ro) ==
  IF p \in DOMAIN names
  THEN [inodes EXCEPT ![names[p]].data = <<>>]
  ELSE Append(inodes, [data |-> <<>>, ro |-> ro])

\* the catch block of saveCurrentFile and of saveFileAs
classifySave(errorMsg) ==
  IF \/ includes(errorMsg, sPermission)
     \/ includes(errorMsg, sPermissionCap)
     \/ includes(errorMsg, sReadOnly)
  THEN "permission"
  ELSE "generic"

\* the catch block of handleCreateItem
classifyCreate(errorMsg) ==
  IF includes(errorMsg, sPermission) \/ includes(errorMsg, sPermissionCap)
  THEN "permission"
  ELSE IF includes(errorMsg, sAlreadyExists) THEN "exists"
  ELSE "generic"

alertOf(caller, err) ==
  IF err = <<>> THEN "none"
  ELSE IF caller = "create" THEN classifyCreate(err)
  ELSE classifySave(err)

MaxCalls == 2        \* WriteFile calls in one behaviour

\* a caller awaits WriteFile(filePath, content): handleCreateItem with '',
\* saveCurrentFile and saveFileAs with the content of a tab
CallWriteFile(caller, filePath, content) ==
  /\ nCalls < MaxCalls
  /\ nCalls' = nCalls + 1
  /\ calls' = {[c EXCEPT !.alone = FALSE] : c \in calls} \cup
       {[id |-> nCalls + 1, caller |-> caller, path |-> filePath,
         content |-> content, pc |-> "stat", fd |-> 0,
         before |-> view(names, inodes), alone |-> calls = {}]}
  /\ UNCHANGED << names, inodes, ret, alert, browserVars, rankVars, recentVars,
                  tabVars, launchVars >>

\* WriteFile returns err to its caller (nil is <<>>) with the file system ns, is
return(c, err, ns, is) ==
  /\ calls' = calls \ {c}
  /\ names' = ns
  /\ inodes' = is
  /\ ret' = Append(ret, [id |-> c.id, caller |-> c.caller, path |-> c.path,
                         content |-> c.content, err |-> err,
                         before |-> c.before, after |-> view(ns, is),
                         alone |-> c.alone])
  /\ alert' = alertOf(c.caller, err)
  /\ IF err = <<>> /\ c.caller = "create"
     THEN awaitReadFile(c.path) /\ UNCHANGED << tabVars, launchVars, nCalls >>
     ELSE UNCHANGED << recentVars, tabVars, launchVars, nCalls >>

\* the call goes on to its next system call
goto(c, pc, fd, ns, is) ==
  /\ calls' = (calls \ {c}) \cup {[c EXCEPT !.pc = pc, !.fd = fd]}
  /\ names' = ns
  /\ inodes' = is
  /\ UNCHANGED << ret, alert, nCalls, recentVars, tabVars, launchVars >>

\* one system call of WriteFile(c.path, c.content); ioOk: the write of the
\* content succeeds, cut: the number of characters a failed write has written
WriteFileStep(c, ioOk, cut) ==
  LET target == c.path
      tmp == tempFile(c.path)
      test == testFile(c.path)
  IN
  /\ c \in calls
  /\ UNCHANGED << browserVars, rankVars >>
  /\ CASE c.pc = "stat" ->
            \* CheckFilePermissions: os.Stat(filePath)
            IF target \in DOMAIN names /\ inodes[names[target]].ro
            THEN return(c, sFile \o target \o sIsReadOnly, names, inodes)
            ELSE goto(c, "test", 0, names, inodes)
       [] c.pc = "test" ->
            \* CheckFilePermissions: ioutil.WriteFile(testFile, "", 0644)
            IF openable(test)
            THEN goto(c, "untest", 0, openedNames(test), openedInodes(test, FALSE))
            ELSE return(c, sNoWrite \o Dir(target) \o sColon \o sOpen \o test
                             \o sDenied, names, inodes)
       [] c.pc = "untest" ->
            \* CheckFilePermissions: os.Remove(testFile)
            goto(c, "temp", 0, unbind(names, test), inodes)
       [] c.pc = "temp" ->
            \* os.Stat(filePath) for perm, then ioutil.WriteFile opens tempFile
            IF openable(tmp)
            THEN goto(c, "write", openedNames(tmp)[tmp], openedNames(tmp),
                      openedInodes(tmp, target \in DOMAIN names
                                          /\ inodes[names[target]].ro))
            ELSE return(c, sTempFailed \o sOpen \o tmp \o sDenied, names, inodes)
       [] c.pc = "write" ->
            \* ioutil.WriteFile writes the content and closes the file
            IF ioOk
            THEN goto(c, "rename", c.fd, names,
                      [inodes EXCEPT ![c.fd].data = c.content])
            ELSE /\ cut < Len(c.content)
                 /\ return(c, sTempFailed \o sWrite \o tmp \o sNoSpace, names,
                           [inodes EXCEPT ![c.fd].data = SubSeq(c.content, 1, cut)])
       [] c.pc = "rename" ->
            \* os.Rename(tempFile, filePath); os.Remove(tempFile) on error
            IF tmp \in DOMAIN names
            THEN return(c, <<>>, bind(unbind(names, tmp), target, names[tmp]),
                        inodes)
            ELSE return(c, sSaveFailed \o sRename \o tmp \o sSpace \o target
                             \o sNoEntry, names, inodes)

(***************************************************************************)
(* SpecFs: calls of WriteFile by the three callers, one after another or   *)
(* overlapping                                                             *)
(***************************************************************************)
Callers == {"save", "saveAs", "create"}

InitFs ==
  /\ BrowserInit
  /\ disk = BaseDisk
  /\ RankIdle
  /\ RecentIdle
  /\ TabIdle
  /\ LaunchIdle
  /\ names = StartNames
  /\ inodes = StartInodes
  /\ calls = {}
  /\ nCalls = 0
  /\ ret = <<>>
  /\ alert = "none"

NextFs ==
  \/ \E caller \in Callers, t \in Targets :
       CallWriteFile(caller, t, IF caller = "create" THEN <<>> ELSE NewText)
  \/ \E c \in calls, ioOk \in BOOLEAN, cut \in 0..(Len(NewText) - 1) :
       WriteFileStep(c, ioOk, cut)

SpecFs == InitFs /\ [][NextFs]_vars


(***************************************************************************)
(* WriteFile: atomicity, frame, classification of its failures             *)
(***************************************************************************)
\* the contents WriteFile has been called with for the file t
Asked(t) ==
  {c.content : c \in {c \in calls : c.path = t}} \cup
  {ret[k].content : k \in {k \in 1..Len(ret) : ret[k].path = t}}

\* the last call that returned
lastRet == ret[Len(ret)]

\* C21: at every point a target of WriteFile holds its complete previous
\* content or the complete content of a call, and a call that returns an
\* error with no other call under way has left the target as it was.
C21_Claim ==
  /\ \A t \in Targets :
       fileOf(names, inodes, t) \in
         {fileOf(StartNames, StartInodes, t)} \cup {<<TRUE, x>> : x \in Asked(t)}
  /\ \A k \in 1..Len(ret) :
       ret[k].err # <<>> /\ ret[k].alone
         => ret[k].after[ret[k].path] = ret[k].before[ret[k].path]

\* the directory of the target denies write access, or the target is a
\* read-only file
Denied(filePath) ==
  \/ Dir(filePath) \notin WritableDirs
  \/ filePath \in DOMAIN StartNames /\ StartInodes[StartNames[filePath]].ro

\* C22: a write that is denied fails, and its caller shows the
\* permission-denied message.
C22_Claim ==
  ret # <<>> /\ Denied(lastRet.path)
    => lastRet.err # <<>> /\ alert = "permission"

\* C23: creating a file where there is one fails, the caller shows the
\* already-exists message, and the file is as it was.
C23_Claim ==
  ret # <<>> /\ lastRet.caller = "create" /\ lastRet.before[lastRet.path][1]
    => /\ alert = "exists"
       /\ lastRet.after[lastRet.path] = lastRet.before[lastRet.path]

\* C30: a successful WriteFile with no other call under way leaves every
\* file but its target as it was.
C30_Claim ==
  \A k \in 1..Len(ret) :
    ret[k].err = <<>> /\ ret[k].alone
      => \A p \in FsPaths \ {ret[k].path} : ret[k].after[p] = ret[k].before[p]


(***************************************************************************)
(* The tabs of the Editor: createNewFile, closeCurrentTab, the close       *)
(* button and the click on a tab, handleContentChange, saveCurrentFile     *)
(***************************************************************************)
sUntitled == <<"U", "n", "t", "i", "t", "l", "e", "d">>

MaxTabs == 2         \* tabs at a time
MaxNow == 2          \* milliseconds that pass
MaxUntitled == 2     \* value of untitledCounter
MaxPending == 1      \* ReadFile and WriteFile calls of the Editor pending
MaxTabOpens == 2     \* calls of openFileFromPath in one behaviour

\* tabs.map(tab => pred(tab) ? upd(tab) : tab)
mapTabs(ts, pred(_), upd(_)) ==
  [k \in 1..Len(ts) |-> IF pred(ts[k]) THEN upd(ts[k]) ELSE ts[k]]

Pending == Cardinality(reads) + Cardinality(saves)

\* a millisecond passes
Tick ==
  /\ now < MaxNow
  /\ now' = now + 1
  /\ UNCHANGED << tabs, activeTab, untitledCounter, saves, fsVars, launchVars,
                  recentVars, browserVars, rankVars >>

\* the body of createNewFile
newUntitled ==
  /\ Len(tabs) < MaxTabs
  /\ untitledCounter < MaxUntitled
  /\ tabs' = Append(tabs, Tab(now, sUntitled \o <<"-">> \o <<Digits[untitledCounter + 1]>>,
                              <<>>, TRUE, <<>>))
  /\ activeTab' = now
  /\ untitledCounter' = untitledCounter + 1
  /\ UNCHANGED << saves, now >>

\* File > New File, Ctrl+N
createNewFile ==
  /\ newUntitled
  /\ UNCHANGED << fsVars, launchVars, recentVars, browserVars, rankVars >>

\* a click on a file of the explorer or of the welcome page
OpenTab(filePath) ==
  /\ Len(tabs) < MaxTabs
  /\ Pending < MaxPending
  /\ Len(openLog) + Cardinality(reads) < MaxTabOpens
  /\ openFileFromPath(filePath)
  /\ UNCHANGED << browserVars, rankVars >>

\* a click on the k-th tab: setActiveTab(tab.id)
SelectTab(k) ==
  /\ k \in 1..Len(tabs)
  /\ tabs[k].id # activeTab
  /\ activeTab' = tabs[k].id
  /\ UNCHANGED << tabs, untitledCounter, saves, now, fsVars, launchVars,
                  recentVars, browserVars, rankVars >>

\* the id of the last tab of ts, or ''
lastId(ts) == IF Len(ts) > 0 THEN ts[Len(ts)].id ELSE NoTab

closeCurrentTab ==
  /\ activeTab # NoTab
  /\ tabs' = SelectSeq(tabs, LAMBDA tab : tab.id # activeTab)
  /\ activeTab' = lastId(SelectSeq(tabs, LAMBDA tab : tab.id # activeTab))
  /\ UNCHANGED << untitledCounter, saves, now, fsVars, launchVars, recentVars,
                  browserVars, rankVars >>

\* the close button of the k-th tab
CloseTab(k) ==
  /\ k \in 1..Len(tabs)
  /\ LET newTabs == SelectSeq(tabs, LAMBDA t : t.id # tabs[k].id)
     IN /\ tabs' = newTabs
        /\ activeTab' = IF tabs[k].id = activeTab /\ Len(newTabs) > 0
                        THEN lastId(newTabs)
                        ELSE IF Len(newTabs) = 0 THEN NoTab
                        ELSE activeTab
  /\ UNCHANGED << untitledCounter, saves, now, fsVars, launchVars, recentVars,
                  browserVars, rankVars >>

\* the user types: the editor reports the text value
handleContentChange(value) ==
  /\ activeTab # NoTab
  /\ found(tabs, LAMBDA tab : tab.id = activeTab /\ tab.content # value)
  /\ tabs' = mapTabs(tabs, LAMBDA tab : tab.id = activeTab,
                     LAMBDA tab : [tab EXCEPT !.content = value, !.isDirty = TRUE])
  /\ UNCHANGED << activeTab, untitledCounter, saves, now, fsVars, launchVars,
                  recentVars, browserVars, rankVars >>

\* saveCurrentFile, or saveFileAs with the path chosen in the dialog, up to
\* the await of WriteFile; the call keeps the tabs and the activeTab of the
\* render that created it
saveCurrentFile(chosen) ==
  /\ Pending < MaxPending
  /\ found(tabs, LAMBDA tab : tab.id = activeTab)
  /\ LET currentTab == find(tabs, LAMBDA tab : tab.id = activeTab)
         as == startsWith(currentTab.name, sUntitled) \/ currentTab.filePath = <<>>
     IN saves' = saves \cup
          {[kind |-> IF as THEN "saveAs" ELSE "save",
            path |-> IF as THEN chosen ELSE currentTab.filePath,
            content |-> currentTab.content,
            tabs |-> tabs, activeTab |-> activeTab]}
  /\ UNCHANGED << tabs, activeTab, untitledCounter, now, fsVars, launchVars,
                  recentVars, browserVars, rankVars >>

\* the tabs set by the call after a successful WriteFile
savedTabs(sv) ==
  mapTabs(sv.tabs, LAMBDA tab : tab.id = sv.activeTab,
          LAMBDA tab : IF sv.kind = "save"
                       THEN [tab EXCEPT !.isDirty = FALSE]
                       ELSE [tab EXCEPT !.name = fileNameOf(sv.path),
                                        !.filePath = sv.path,
                                        !.isDirty = FALSE])

\* WriteFile returns err (nil is <<>>) to saveCurrentFile or saveFileAs
SaveReturn(sv, err) ==
  /\ sv \in saves
  /\ saves' = saves \ {sv}
  /\ alert' = alertOf(sv.kind, err)
  /\ tabs' = IF err = <<>> THEN savedTabs(sv) ELSE tabs
  /\ UNCHANGED << activeTab, untitledCounter, now, names, inodes, calls, nCalls,
                  ret, launchVars, recentVars, browserVars, rankVars >>

(***************************************************************************)
(* SpecTabs: the tabs under opens, edits, saves and closes                 *)
(***************************************************************************)
TabPaths == {OpenPath(1), OpenPath(2)}
Texts == {<<"x">>}
SaveErrors(filePath) ==
  {sTempFailed \o sWrite \o tempFile(filePath) \o sNoSpace}

InitTabs ==
  /\ BrowserInit
  /\ disk = BaseDisk
  /\ RankIdle
  /\ RecentIdle
  /\ EditorIdle

NextTabs ==
  \/ Tick
  \/ createNewFile
  \/ \E p \in TabPaths : OpenTab(p)
  \/ \E r \in reads, ok \in BOOLEAN : ReadReturn(r, ok)
  \/ \E k \in 1..MaxTabs : SelectTab(k)
  \/ closeCurrentTab
  \/ \E k \in 1..MaxTabs : CloseTab(k)
  \/ \E value \in Texts : handleContentChange(value)
  \/ \E p \in TabPaths : saveCurrentFile(p)
  \/ \E sv \in saves, err \in {<<>>} \cup UNION {SaveErrors(p) : p \in TabPaths} :
       SaveReturn(sv, err)

SpecTabs == InitTabs /\ [][NextTabs]_vars

\* C27: the active tab id is empty or the id of a tab of the tab list.
C27_Claim ==
  activeTab = NoTab \/ \E k \in 1..Len(tabs) : tabs[k].id = activeTab

\* C28: when the read of an open completes, every tab that exists at that
\* moment is in the tab list afterwards, unchanged.
C28_Claim ==
  [][reads' # reads /\ reads' \subseteq reads
       => \A k \in 1..Len(tabs) : \E j \in 1..Len(tabs') : tabs'[j] = tabs[k]]_vars

\* C29: when the write of a save completes, a tab edited while the write was
\* in flight holds the edited content and is dirty, and no tab has changed
\* its content.
C29_Claim ==
  [][saves' # saves /\ saves' \subseteq saves
       => LET sv == CHOOSE sv \in saves : sv \notin saves'
          IN \A k \in 1..Len(tabs) :
               \E j \in 1..Len(tabs') :
                 /\ tabs'[j].id = tabs[k].id
                 /\ tabs'[j].content = tabs[k].content
                 /\ tabs[k].id = sv.activeTab /\ tabs[k].content # sv.content
                      => tabs'[j].isDirty]_vars


(***************************************************************************)
(* Ulauncher and its wiring in the Editor                                  *)
(***************************************************************************)
sHome == <<"/", "h", "o", "m", "e">>
sHomeU == sHome \o SLASH \o <<"u">>

\* what ListFiles reports below /: every entry carries its path
HomeDisk ==
  [p \in {SLASH, sHome, sHomeU} |->
     IF p = SLASH THEN << FileItem(<<"h", "o", "m", "e">>, "folder", sHome, 0) >>
     ELSE IF p = sHome
       THEN << FileItem(<<"u">>, "folder", sHomeU, 0),
               FileItem(<<"n">>, "file", sHome \o SLASH \o <<"n">>, 2) >>
     ELSE << FileItem(<<"f">>, "file", sHomeU \o SLASH \o <<"f">>, 3) >>]

actions ==
  <<
     [id |-> "open-file",
      title |->
       <<"O", "p", "e", "n", " ", "F", "i", "l", "e", ".", ".", ".">>,
      description |->
       <<"O", "p", "e", "n", " ", "a", " ", "f", "i", "l", "e", " ", "f", "r",
         "o", "m", " ", "y", "o", "u", "r", " ", "s", "y", "s", "t", "e", "m">>],
     [id |-> "open-folder",
      title |->
       <<"O", "p", "e", "n", " ", "F", "o", "l", "d", "e", "r", ".", ".", ".">>,
      description |->
       <<"O", "p", "e", "n", " ", "a", " ", "f", "o", "l", "d", "e", "r", "/",
         "p", "r", "o", "j", "e", "c", "t", " ", "f", "r", "o", "m", " ", "y",
         "o", "u", "r", " ", "s", "y", "s", "t", "e", "m">>],
     [id |-> "file-browser",
      title |->
       <<"F", "i", "l", "e", " ", "B", "r", "o", "w", "s", "e", "r">>,
      description |->
       <<"B", "r", "o", "w", "s", "e", " ", "f", "i", "l", "e", "s", " ", "a",
         "n", "d", " ", "d", "i", "r", "e", "c", "t", "o", "r", "i", "e", "s">>],
     [id |-> "new-file",
      title |->
       <<"N", "e", "w", " ", "F", "i", "l", "e">>,
      description |->
       <<"C", "r", "e", "a", "t", "e", " ", "a", " ", "n", "e", "w", " ", "f",
         "i", "l", "e", " ", "i", "n", " ", "t", "h", "e", " ", "e", "d", "i",
         "t", "o", "r">>]
  >>

MaxULoads == 2       \* listing calls of loadBrowserFiles pending at a time
BrowseLimit == 100
ShownLimit == 50

filteredActions ==
  SelectSeq(actions, LAMBDA action :
    \/ includes(toLowerCase(action.title), toLowerCase(uQuery))
    \/ includes(toLowerCase(action.description), toLowerCase(uQuery)))

filteredBrowserFiles ==
  slice(SelectSeq(browserFiles, LAMBDA file :
          includes(toLowerCase(file.name), toLowerCase(uQuery))),
        0, ShownLimit)

currentItems == IF mode = "browser" THEN filteredBrowserFiles ELSE filteredActions

\* file.path || `${browserPath}/${file.name}`
pathOf(file) ==
  IF file.path # <<>> THEN file.path ELSE browserPath \o SLASH \o file.name

\* browserPath.split('/').slice(0, -1).join('/') || '/'
parentPath(path) ==
  LET cuts == {k \in 1..Len(path) : path[k] = "/"}
      last == IF cuts = {} THEN 0 ELSE CHOOSE k \in cuts : \A j \in cuts : j <= k
  IN IF last <= 1 THEN SLASH ELSE SubSeq(path, 1, last - 1)

\* nothing but the launcher changes
launcherOnly == UNCHANGED << browserVars, rankVars, recentVars, tabVars, fsVars >>

\* the state of a Ulauncher that has just been rendered
launcherFresh ==
  /\ mode' = "actions"
  /\ browserPath' = <<>>
  /\ browserFiles' = <<>>
  /\ uQuery' = <<>>
  /\ uSelectedIndex' = 0
  /\ uIsLoading' = FALSE
  /\ uLoads' = {}

\* Ctrl+Space: the Editor renders Ulauncher
OpenLauncher ==
  /\ ~showLauncher
  /\ showLauncher' = TRUE
  /\ launcherFresh
  /\ emitted' = <<>>
  /\ UNCHANGED edFiles
  /\ launcherOnly

\* onClose(): the Editor stops rendering Ulauncher
closeLauncher ==
  /\ showLauncher' = FALSE
  /\ launcherFresh

\* the X button
CloseLauncher ==
  /\ showLauncher
  /\ closeLauncher
  /\ emitted' = <<>>
  /\ UNCHANGED edFiles
  /\ launcherOnly

\* loadBrowserFiles(path) up to the await of onListFiles; nav: the call is
\* awaited by navigateTo
loadBrowserFiles(path, nav) ==
  /\ Cardinality(uLoads) < MaxULoads
  /\ uIsLoading' = TRUE
  /\ uLoads' = uLoads \cup
       {[id |-> CHOOSE i \in 1..MaxULoads : \A l \in uLoads : l.id # i,
         path |-> path, nav |-> nav]}

\* the listing resolves or rejects; navigateTo goes on to setSelectedIndex(0)
ULoadReturn(l) ==
  /\ l \in uLoads
  /\ uLoads' = uLoads \ {l}
  /\ browserFiles' = IF listable(l.path) THEN slice(disk[l.path], 0, BrowseLimit)
                     ELSE <<>>
  /\ uIsLoading' = FALSE
  /\ uSelectedIndex' = IF l.nav THEN 0 ELSE uSelectedIndex
  /\ emitted' = <<>>
  /\ UNCHANGED << showLauncher, mode, browserPath, uQuery, edFiles >>
  /\ launcherOnly

\* the input's onChange; the effect on [query, mode] resets the cursor
USetQuery(q) ==
  /\ showLauncher
  /\ q # uQuery
  /\ uQuery' = q
  /\ uSelectedIndex' = 0
  /\ emitted' = <<>>
  /\ UNCHANGED << showLauncher, mode, browserPath, browserFiles, uIsLoading,
                  uLoads, edFiles >>
  /\ launcherOnly

UArrowDown ==
  /\ showLauncher
  /\ uSelectedIndex' = Min(uSelectedIndex + 1, Len(currentItems) - 1)
  /\ emitted' = <<>>
  /\ UNCHANGED << showLauncher, mode, browserPath, browserFiles, uQuery,
                  uIsLoading, uLoads, edFiles >>
  /\ launcherOnly

UArrowUp ==
  /\ showLauncher
  /\ uSelectedIndex' = Max(uSelectedIndex - 1, 0)
  /\ emitted' = <<>>
  /\ UNCHANGED << showLauncher, mode, browserPath, browserFiles, uQuery,
                  uIsLoading, uLoads, edFiles >>
  /\ launcherOnly

\* Enter acts on the item under the cursor, a click on an item of the list,
\* which is rendered when nothing is loading
acts(idx) ==
  /\ showLauncher
  /\ 0 <= idx /\ idx < Len(currentItems)
  /\ idx = uSelectedIndex \/ ~uIsLoading

\* navigateTo(path) of Ulauncher up to the await
uNavigateTo(path) ==
  /\ browserPath' = path
  /\ loadBrowserFiles(path, TRUE)
  /\ emitted' = <<>>
  /\ UNCHANGED << showLauncher, mode, browserFiles, uQuery, uSelectedIndex,
                  edFiles >>
  /\ launcherOnly

\* Enter or a click on a folder of the browse mode
UEnterFolder(idx) ==
  /\ acts(idx)
  /\ mode = "browser"
  /\ currentItems[idx + 1].type = "folder"
  /\ uNavigateTo(pathOf(currentItems[idx + 1]))

\* the Up button
goUp ==
  /\ showLauncher
  /\ mode = "browser"
  /\ uNavigateTo(parentPath(browserPath))

\* the onOpenFile the Editor hands to Ulauncher
onOpenFileOfLauncher(fileName) ==
  IF found(edFiles, LAMBDA f : f.name = fileName)
       /\ find(edFiles, LAMBDA f : f.name = fileName).path # <<>>
  THEN /\ awaitReadFile(find(edFiles, LAMBDA f : f.name = fileName).path)
       /\ UNCHANGED << tabVars, fsVars >>
  ELSE UNCHANGED << recentVars, tabVars, fsVars >>

\* Enter or a click on a file of the browse mode: onOpenFile(path); onClose()
UEnterFile(idx) ==
  /\ acts(idx)
  /\ mode = "browser"
  /\ currentItems[idx + 1].type # "folder"
  /\ emitted' = <<pathOf(currentItems[idx + 1])>>
  /\ onOpenFileOfLauncher(pathOf(currentItems[idx + 1]))
  /\ closeLauncher
  /\ UNCHANGED << edFiles, browserVars, rankVars >>

\* Enter or a click on the action File Browser
UBrowse(idx) ==
  /\ acts(idx)
  /\ mode = "actions"
  /\ currentItems[idx + 1].id = "file-browser"
  /\ mode' = "browser"
  /\ browserPath' = sHome
  /\ loadBrowserFiles(sHome, FALSE)
  /\ uSelectedIndex' = 0
  /\ emitted' = <<>>
  /\ UNCHANGED << showLauncher, browserFiles, uQuery, edFiles >>
  /\ launcherOnly

\* what the user may pick in OpenFileDialog and in OpenDirectoryDialog
DialogFiles == {sHomeU \o SLASH \o <<"f">>}
DialogFolders == {sHome}

\* what refreshFileList stores for the folder it lists
refreshed(folder) == IF listable(folder) THEN disk[folder] ELSE edFiles

\* Enter or a click on Open File..., Open Folder... or New File, and onClose().
\* d is what the dialog returns ('' when it is cancelled); openFolder lists
\* the folder of its render and the effect on currentProject lists the new
\* one: last is the folder of the listing that returns last
URunAction(idx) ==
  /\ acts(idx)
  /\ mode = "actions"
  /\ closeLauncher
  /\ emitted' = <<>>
  /\ UNCHANGED rankVars
  /\ CASE currentItems[idx + 1].id = "new-file" ->
            /\ newUntitled
            /\ UNCHANGED << fsVars, recentVars, browserVars, edFiles >>
       [] currentItems[idx + 1].id = "open-file" ->
            /\ \E d \in {<<>>} \cup DialogFiles :
                 IF d = <<>> THEN UNCHANGED recentVars
                 ELSE /\ Len(openLog) + Cardinality(reads) < MaxTabOpens
                      /\ reads # {} => overlaps < MaxOverlaps
                      /\ awaitReadFile(d)
            /\ UNCHANGED << tabVars, fsVars, browserVars, edFiles >>
       [] currentItems[idx + 1].id = "open-folder" ->
            /\ \E d \in {<<>>} \cup DialogFolders :
                 IF d = <<>>
                 THEN UNCHANGED << currentProject, rootChanged, edFiles >>
                 ELSE /\ currentProject' = d
                      /\ rootChanged' = TRUE
                      /\ \E last \in {d} \cup ({currentProject} \ {<<>>}) :
                           edFiles' = refreshed(last)
            /\ UNCHANGED << mounted, query, selectedIndex, currentPath, files,
                            allFiles, isLoading, isIndexing, indexedRef,
                            lastProjectRef, cache, passes, loads, runs, loadSeq,
                            disk, issued, lastInvoked, pubBy, opened, tabVars,
                            fsVars, recentVars >>
       [] OTHER -> FALSE

\* Escape in the browse mode, the Back button
UBack ==
  /\ showLauncher
  /\ mode = "browser"
  /\ mode' = "actions"
  /\ uQuery' = <<>>
  /\ uSelectedIndex' = 0
  /\ emitted' = <<>>
  /\ UNCHANGED << showLauncher, browserPath, browserFiles, uIsLoading, uLoads,
                  edFiles >>
  /\ launcherOnly

\* Escape in the actions mode
UEscape ==
  /\ showLauncher
  /\ mode = "actions"
  /\ closeLauncher
  /\ emitted' = <<>>
  /\ UNCHANGED edFiles
  /\ launcherOnly

(***************************************************************************)
(* SpecLaunch: the launcher browsing from /home, with /home/u open in the  *)
(* explorer                                                                *)
(***************************************************************************)
LaunchQueries == {<<>>, <<"f">>}

InitLaunch ==
  /\ currentProject = sHomeU
  /\ OverlayIdle
  /\ disk = HomeDisk
  /\ RankIdle
  /\ RecentIdle
  /\ TabIdle
  /\ FsIdle
  /\ showLauncher = FALSE
  /\ mode = "actions"
  /\ browserPath = <<>>
  /\ browserFiles = <<>>
  /\ uQuery = <<>>
  /\ uSelectedIndex = 0
  /\ uIsLoading = FALSE
  /\ uLoads = {}
  /\ edFiles = HomeDisk[sHomeU]
  /\ emitted = <<>>

NextLaunch ==
  \/ OpenLauncher
  \/ CloseLauncher
  \/ \E l \in uLoads : ULoadReturn(l)
  \/ \E q \in LaunchQueries : USetQuery(q)
  \/ UArrowDown
  \/ UArrowUp
  \/ \E idx \in 0..3 : UEnterFolder(idx)
  \/ \E idx \in 0..3 : UEnterFile(idx)
  \/ \E idx \in 0..3 : UBrowse(idx)
  \/ \E idx \in 0..3 : URunAction(idx)
  \/ goUp
  \/ UBack
  \/ UEscape

SpecLaunch == InitLaunch /\ [][NextLaunch]_vars

\* C24: when a file of the browse mode is selected, the launcher hands its
\* absolute path to onOpenFile and the Editor starts to open the file at
\* that path.
C24_Claim ==
  emitted # <<>> => \E r \in reads : r.path = emitted[1]

=============================================================================
